---- MODULE Spec2Model ----
(***************************************************************************)
(* go-url-shortener: the storage layer (internal/storage).                 *)
(*                                                                         *)
(* The repository holds three variants of the same package:                *)
(*   memory   : src/internal/storage/storage.go, lines 1-62                *)
(*   file     : src/unnamed/part_000 (an append-only TSV log + a map)      *)
(*   postgres : src/internal/storage/storage.go, lines 64-176              *)
(* One store instance is modelled; `variant` says which package it is.     *)
(* Callers are goroutines (one per HTTP request) that call Save and Load.  *)
(*                                                                         *)
(* Spec        : one store instance of any variant and its calls           *)
(* SpecFair    : Spec under the scheduling of the Go runtime               *)
(* SpecRestart : a file store, its calls, and restarts on the same file    *)
(* SpecLoad    : the construction of a file store on any small file        *)
(*                                                                         *)
(* Strings are sequences of one-character strings.  A step of the model is *)
(* one access to shared state (the mutex, the map, the file, the table).   *)
(*                                                                         *)
(* Environment assumptions: a failing SQL statement has no effect on the   *)
(* table; the backing table has a unique constraint on short_id (the code  *)
(* relies on SQLSTATE 23505).  A failing file append has written nothing   *)
(* (OpenFile failed) or a part of the record (WriteString failed).         *)
(***************************************************************************)
EXTENDS Integers, Sequences, FiniteSets, Bags, TLC

(* ----------------------------- bounds ---------------------------------- *)
\* number of goroutines that may call into the store
NumProcs == 2
\* number of Save calls started in one behaviour (Load calls are not bounded)
MaxSaves == 2
\* number of lines of a log file that is given to the loader
MaxLines == 3

(* ------------------------ program constants ---------------------------- *)
shortIDLength == 6
\* the literal 5 of the retry loops
maxAttempts == 5

charset ==
  << "a","b","c","d","e","f","g","h","i","j","k","l","m",
     "n","o","p","q","r","s","t","u","v","w","x","y","z",
     "A","B","C","D","E","F","G","H","I","J","K","L","M",
     "N","O","P","Q","R","S","T","U","V","W","X","Y","Z",
     "0","1","2","3","4","5","6","7","8","9" >>

TAB == "\t"
NL  == "\n"
CR  == "\r"

Procs == 1..NumProcs

\* The draws of s.r.Intn(len(charset)) for one identifier.  The random source
\* is an input: the model explores two outcomes, which give the identifiers
\* "aaaaaa" and "bbbbbb".
DrawSeqs == { [i \in 1..shortIDLength |-> 0], [i \in 1..shortIDLength |-> 1] }

\* generateShortID: b[i] = charset[s.r.Intn(len(charset))]  (Go indexes from 0)
generateShortID(draws) == [i \in 1..shortIDLength |-> charset[draws[i] + 1]]

IDs == { generateShortID(d) : d \in DrawSeqs }

\* The long URL passed by the n-th Save.  Save never reads its argument, so
\* each call passes a URL of its own: whose target an entry holds is visible.
TargetOf(n) == << "u", charset[n] >>

\* The identifiers Load is asked for: "aaaaaa", which a log may hold at
\* construction and which a Save may or may not have returned.
Lookups == { generateShortID([i \in 1..shortIDLength |-> 0]) }

(* --------------------------- Go map helpers ---------------------------- *)
EmptyMap == << >>

MapHas(m, k) == k \in DOMAIN m

\* variant definition: the lookup never finds the candidate
ExistsNever(m, shortID) == FALSE

\* _, exists := s.urls[shortID]
Exists(m, shortID) == MapHas(m, shortID)

\* variant definition: the loop runs once more
MoreAttemptsOffByOne(i) == i <= maxAttempts

\* the condition of the retry loops, i the number of candidates tried so far
MoreAttempts(i) == i < maxAttempts

\* variant definition: an entry that exists is kept
MapPutIfAbsent(m, k, v) ==
  [x \in (DOMAIN m) \cup {k} |-> IF x \in DOMAIN m THEN m[x] ELSE v]

\* m[k] = v
MapPut(m, k, v) == [x \in (DOMAIN m) \cup {k} |-> IF x = k THEN v ELSE m[x]]

\* variant definition: the rollback resets the map
MapDeleteAll(m, k) == << >>

\* delete(m, k)
MapDelete(m, k) == [x \in (DOMAIN m) \ {k} |-> m[x]]

(* ------------------------- the TSV log file ---------------------------- *)
\* fmt.Sprintf("%s\t%s\n", shortID, longURL)
Record(shortID, longURL) == shortID \o <<TAB>> \o longURL \o <<NL>>

\* position of the first c in s, 0 when there is none
IndexOf(s, c) ==
  IF \E i \in 1..Len(s) : s[i] = c
    THEN CHOOSE i \in 1..Len(s) : s[i] = c /\ \A j \in 1..(i - 1) : s[j] # c
    ELSE 0

\* bufio.ScanLines drops one trailing carriage return of a line
dropCR(line) ==
  IF Len(line) > 0 /\ line[Len(line)] = CR
    THEN SubSeq(line, 1, Len(line) - 1)
    ELSE line

\* bufio.Scanner with the default split function: the lines of the data, a
\* last line without newline included when it is not empty
RECURSIVE ScanLines(_)
ScanLines(data) ==
  IF data = << >> THEN << >>
  ELSE LET k == IndexOf(data, NL) IN
       IF k = 0 THEN << dropCR(data) >>
       ELSE << dropCR(SubSeq(data, 1, k - 1)) >>
              \o ScanLines(SubSeq(data, k + 1, Len(data)))

\* variant definition: the line is split at its first two tabs (n = 3)
SplitN3(line) ==
  LET k == IF \E i \in 1..Len(line) : line[i] = TAB
             THEN CHOOSE i \in 1..Len(line) :
                    line[i] = TAB /\ \A j \in 1..(i - 1) : line[j] # TAB
             ELSE 0
      rest == SubSeq(line, k + 1, Len(line))
      n == IF \E i \in 1..Len(rest) : rest[i] = TAB
             THEN CHOOSE i \in 1..Len(rest) :
                    rest[i] = TAB /\ \A j \in 1..(i - 1) : rest[j] # TAB
             ELSE 0
  IN  IF k = 0 THEN << line >>
      ELSE IF n = 0 THEN << SubSeq(line, 1, k - 1), rest >>
      ELSE << SubSeq(line, 1, k - 1), SubSeq(rest, 1, n - 1),
              SubSeq(rest, n + 1, Len(rest)) >>

\* strings.SplitN(line, "\t", 2)
SplitN2(line) ==
  LET k == IndexOf(line, TAB) IN
  IF k = 0 THEN << line >>
  ELSE << SubSeq(line, 1, k - 1), SubSeq(line, k + 1, Len(line)) >>

\* the loop of loadFromFile over the scanned lines, into tempUrls
RECURSIVE replayLines(_, _)
replayLines(lines, tempUrls) ==
  IF lines = << >> THEN tempUrls
  ELSE LET line  == Head(lines)
           parts == SplitN2(line)
       IN  IF line = << >> \/ Len(parts) # 2
             THEN replayLines(Tail(lines), tempUrls)
             ELSE replayLines(Tail(lines), MapPut(tempUrls, parts[1], parts[2]))

\* loadFromFile without a read error: s.urls = tempUrls
loadFromFile(data) == replayLines(ScanLines(data), EmptyMap)

\* NewStorage (file variant): a load error is logged and the store starts
\* with an empty map
NewStorage(data, loadOK) == IF loadOK THEN loadFromFile(data) ELSE EmptyMap

\* appendToFile, the write succeeding (O_APPEND)
appendToFile(data, shortID, longURL) == data \o Record(shortID, longURL)

\* appendToFile returning an error: OpenFile failed and the file is as it
\* was, or WriteString failed after a part of the record was written (of the
\* possible parts the model takes one: the id and the tab)
appendToFileFails(data, shortID, longURL) ==
  { data, data \o shortID \o <<TAB>> }

(* ------------------------- the table urls ------------------------------ *)
Row(shortID, longURL) == [short_id |-> shortID, long_url |-> longURL]

RowsOf(t, shortID) == { r \in BagToSet(t) : r.short_id = shortID }

\* INSERT INTO urls (short_id, long_url) VALUES ($1, $2), no error
InsertRow(t, shortID, longURL) == t (+) SetToBag({ Row(shortID, longURL) })

uniqueViolationCode == "23505"

\* What ExecContext answers for the INSERT when the database is reachable:
\* short_id is unique in the table.
ExecInsert(t, shortID) ==
  IF RowsOf(t, shortID) # {} THEN uniqueViolationCode ELSE "ok"

\* variant definition: a unique violation is taken for success
SaveOnResultViolationOK(code) ==
  IF code = "ok" \/ code = uniqueViolationCode THEN "return" ELSE "fail"

\* variant definition: every error is retried
SaveOnResultRetryAll(code) == IF code = "ok" THEN "return" ELSE "continue"

\* What Save does with the answer: err == nil returns the id, a unique
\* violation goes on with the loop, any other error is returned.
SaveOnResult(code) ==
  IF code = "ok" THEN "return"
  ELSE IF code = uniqueViolationCode THEN "continue"
  ELSE "fail"

(* ----------------------------- the state -------------------------------- *)
VARIABLES
  variant,   \* "memory", "file" or "postgres"
  urls,      \* Storage.urls (memory and file variants)
  file,      \* the bytes of the file at filePath (file variant)
  tbl,       \* the rows of table urls (postgres variant), a bag
  readers,   \* goroutines holding s.mu for reading
  writer,    \* the goroutine (at most one) that has announced s.mu.Lock()
  pc,        \* where each goroutine is in its call
  loc,       \* the locals of each goroutine's call, and what the call did
  ret,       \* what the step just taken returned to its caller, if it returned
  saved,     \* history: the (id, target) of every Save that returned nil
             \* error, a bag
  nSaves,    \* history: the number of Save calls started
  serial,    \* history: no two calls have overlapped so far
  fatal,     \* the Go runtime has thrown "concurrent map writes"
  loaded     \* history: loadFromFile returned no error at construction

vars == << variant, urls, file, tbl, readers, writer, pc, loc, ret, saved,
           nSaves, serial, fatal, loaded >>

NoID == << >>

\* The locals of a call (longURL, shortID, i) and the record of what the
\* call has done: tried[k] says how the k-th candidate fared ("taken",
\* "free", or "error" for an INSERT that failed otherwise),
\* wrote lists the writes to the map, the file and the table, expect holds
\* the targets that Saves returning the looked-up id had returned it for
\* when the Load started, alone says that no other call
\* has been in progress since, urls0/file0/tbl0 are the store at the start
\* (kept as long as the call is alone).
IdleLoc ==
  [ longURL |-> << >>, shortID |-> NoID, i |-> 0,
    tried |-> << >>, wrote |-> << >>, expect |-> {}, alone |-> TRUE,
    urls0 |-> EmptyMap, file0 |-> << >>, tbl0 |-> EmptyBag ]

NoRet ==
  [ by |-> 0, op |-> "none", arg |-> << >>, val |-> << >>, err |-> "nil",
    tried |-> << >>, wrote |-> << >>, expect |-> {}, alone |-> TRUE ]

\* the log a file store may be constructed on
InitFiles == { << >>, Record(generateShortID([i \in 1..shortIDLength |-> 0]), <<"u">>) }

\* the table a postgres store may be connected to
InitTables ==
  { EmptyBag,
    SetToBag({ Row(generateShortID([i \in 1..shortIDLength |-> 0]), <<"u">>) }) }

Init ==
  /\ variant \in { "memory", "file", "postgres" }
  /\ file \in (IF variant = "file" THEN InitFiles ELSE { << >> })
  /\ loaded \in (IF variant = "file" /\ file # << >> THEN BOOLEAN ELSE { TRUE })
  /\ urls = IF variant = "file" THEN NewStorage(file, loaded) ELSE EmptyMap
  /\ tbl \in (IF variant = "postgres" THEN InitTables ELSE { EmptyBag })
  /\ readers = {}
  /\ writer = {}
  /\ pc = [p \in Procs |-> "idle"]
  /\ loc = [p \in Procs |-> IdleLoc]
  /\ ret = NoRet
  /\ saved = EmptyBag
  /\ nSaves = 0
  /\ serial = TRUE
  /\ fatal = FALSE

(* ------------------------- calls and returns --------------------------- *)
OthersIdle(p) == \A q \in Procs \ {p} : pc[q] = "idle"

\* the targets for which completed Saves have returned shortID
SavedFor(shortID) == { r.target : r \in { x \in BagToSet(saved) : x.id = shortID } }

\* the locals of a call that starts now, with what the store holds now
CallLoc(p, longURL, shortID) ==
  IF OthersIdle(p)
    THEN [ IdleLoc EXCEPT !.longURL = longURL, !.shortID = shortID,
                          !.expect = SavedFor(shortID),
                          !.urls0 = urls, !.file0 = file, !.tbl0 = tbl ]
    ELSE [ IdleLoc EXCEPT !.longURL = longURL, !.shortID = shortID,
                          !.expect = SavedFor(shortID), !.alone = FALSE ]

\* the call of q is no longer alone
Overlapped(l) ==
  [ l EXCEPT !.alone = FALSE, !.urls0 = EmptyMap, !.file0 = << >>,
             !.tbl0 = EmptyBag ]

\* Goroutine p starts a call: the history, and the calls it overlaps.  The
\* goroutines are interchangeable: a call is run by the first idle one.
StartCall(p, longURL, shortID) ==
  /\ ~fatal
  /\ pc[p] = "idle"
  /\ \A q \in Procs : q < p => pc[q] # "idle"
  /\ serial' = (serial /\ OthersIdle(p))
  /\ loc' = [q \in Procs |->
               IF q = p THEN CallLoc(p, longURL, shortID)
               ELSE IF pc[q] # "idle" THEN Overlapped(loc[q])
               ELSE loc[q]]
  /\ ret' = NoRet
  /\ saved' = saved

\* what a call returns, with the record of what the call did
Result(p, op, arg, val, err, l) ==
  [ by |-> p, op |-> op, arg |-> arg, val |-> val, err |-> err,
    tried |-> l.tried, wrote |-> l.wrote, expect |-> l.expect,
    alone |-> l.alone ]

\* a step inside a call: the locals become l, nothing is returned
Continue(p, l) ==
  /\ loc' = [loc EXCEPT ![p] = l]
  /\ ret' = NoRet
  /\ saved' = saved

\* Save returns (shortID, nil)
SaveOK(p, l) ==
  /\ ret' = Result(p, "Save", l.longURL, l.shortID, "nil", l)
  /\ saved' = saved (+) SetToBag({ [id |-> l.shortID, target |-> l.longURL] })
  /\ loc' = [loc EXCEPT ![p] = IdleLoc]

\* Save returns ("", err)
SaveErr(p, err, l) ==
  /\ ret' = Result(p, "Save", l.longURL, NoID, err, l)
  /\ saved' = saved
  /\ loc' = [loc EXCEPT ![p] = IdleLoc]

\* variant definition: Load returns no error when it finds nothing
LoadRetNoError(p, val, err) ==
  /\ ret' = Result(p, "Load", loc[p].shortID, val, "nil", loc[p])
  /\ saved' = saved
  /\ loc' = [loc EXCEPT ![p] = IdleLoc]

\* Load returns (val, err)
LoadRet(p, val, err) ==
  /\ ret' = Result(p, "Load", loc[p].shortID, val, err, loc[p])
  /\ saved' = saved
  /\ loc' = [loc EXCEPT ![p] = IdleLoc]

(* --------------------------- sync.RWMutex ------------------------------ *)
\* s.mu.RLock(): taken at once unless a writer has announced itself; a
\* blocked reader is admitted by that writer's Unlock
RLock(p) ==
  /\ readers' = (IF writer = {} THEN readers \cup {p} ELSE readers)
  /\ pc' = [pc EXCEPT ![p] = IF writer = {} THEN "check" ELSE "rblocked"]
  /\ UNCHANGED writer

\* the deferred s.mu.RUnlock() of a Save that returns
RUnlock(p) ==
  /\ readers' = readers \ {p}
  /\ pc' = [pc EXCEPT ![p] = "idle"]
  /\ UNCHANGED writer

\* s.mu.Lock(), first half: the writer passes the writers' mutex and
\* announces itself, which blocks the readers that arrive from now on
LockAnnounce(p) ==
  /\ writer = {}
  /\ writer' = {p}
  /\ pc' = [pc EXCEPT ![p] = "wwait"]
  /\ UNCHANGED readers

\* variant definition: the writer does not wait for the readers
LockAcquireNoWait(p) ==
  /\ writer = {p}
  /\ pc' = [pc EXCEPT ![p] = "read"]
  /\ UNCHANGED << readers, writer >>

\* s.mu.Lock(), second half: the readers that held the lock have left
LockAcquire(p) ==
  /\ writer = {p}
  /\ readers = {}
  /\ pc' = [pc EXCEPT ![p] = "read"]
  /\ UNCHANGED << readers, writer >>

\* the deferred s.mu.Unlock() of a Load that returns: the readers that
\* arrived meanwhile are admitted
Unlock(p) ==
  /\ writer' = {}
  /\ readers' = { q \in Procs : pc[q] = "rblocked" }
  /\ pc' = [q \in Procs |->
              IF q = p THEN "idle"
              ELSE IF pc[q] = "rblocked" THEN "check" ELSE pc[q]]

(* ------------- Save and Load, memory and file variants ----------------- *)
\* the two packages share the code of these steps
Locked == variant \in { "memory", "file" }

\* Save is called: s.mu.RLock()
SaveCall(p, longURL) ==
  /\ Locked
  /\ nSaves < MaxSaves
  /\ nSaves' = nSaves + 1
  /\ StartCall(p, longURL, NoID)
  /\ RLock(p)
  /\ UNCHANGED << variant, urls, file, tbl, fatal, loaded >>

\* One iteration of the loop: generate a candidate and look it up.  A free
\* candidate ends the loop; the fifth occupied candidate ends the call with
\* the error.
SaveCheck(p) ==
  /\ Locked /\ ~fatal
  /\ pc[p] = "check"
  /\ \E d \in DrawSeqs :
       LET genID  == generateShortID(d)
           exists == Exists(urls, genID)
           l == [loc[p] EXCEPT !.i = @ + 1,
                   !.tried = Append(@, IF MapHas(urls, genID) THEN "taken" ELSE "free")]
       IN  IF ~exists
             THEN /\ Continue(p, [l EXCEPT !.shortID = genID])
                  /\ pc' = [pc EXCEPT ![p] = "insert"]
                  /\ UNCHANGED << readers, writer >>
           ELSE IF MoreAttempts(l.i)
             THEN /\ Continue(p, l)
                  /\ UNCHANGED << pc, readers, writer >>
           ELSE /\ SaveErr(p, "exhausted", l)
                /\ RUnlock(p)
  /\ UNCHANGED << variant, urls, file, tbl, nSaves, serial, fatal, loaded >>

\* memory: s.urls[shortID] = longURL; return shortID, nil
MemSaveInsert(p) ==
  /\ variant = "memory" /\ ~fatal
  /\ pc[p] = "insert"
  /\ urls' = MapPut(urls, loc[p].shortID, loc[p].longURL)
  /\ SaveOK(p, [loc[p] EXCEPT
                  !.wrote = Append(@, << "put", loc[p].shortID, loc[p].longURL >>)])
  /\ RUnlock(p)
  /\ UNCHANGED << variant, file, tbl, nSaves, serial, fatal, loaded >>

\* file: s.urls[shortID] = longURL
FileSaveInsert(p) ==
  /\ variant = "file" /\ ~fatal
  /\ pc[p] = "insert"
  /\ urls' = MapPut(urls, loc[p].shortID, loc[p].longURL)
  /\ Continue(p, [loc[p] EXCEPT
                    !.wrote = Append(@, << "put", loc[p].shortID, loc[p].longURL >>)])
  /\ pc' = [pc EXCEPT ![p] = "append"]
  /\ UNCHANGED << variant, file, tbl, readers, writer, nSaves, serial, fatal, loaded >>

\* file: appendToFile succeeds; return shortID, nil
FileSaveAppend(p) ==
  /\ variant = "file" /\ ~fatal
  /\ pc[p] = "append"
  /\ file' = appendToFile(file, loc[p].shortID, loc[p].longURL)
  /\ SaveOK(p, [loc[p] EXCEPT
                  !.wrote = Append(@, << "append", loc[p].shortID, loc[p].longURL >>)])
  /\ RUnlock(p)
  /\ UNCHANGED << variant, urls, tbl, nSaves, serial, fatal, loaded >>

\* file: appendToFile returns an error (the file cannot be opened or
\* written); delete(s.urls, shortID); return "", error
FileSaveRollback(p) ==
  /\ variant = "file" /\ ~fatal
  /\ pc[p] = "append"
  /\ file' \in appendToFileFails(file, loc[p].shortID, loc[p].longURL)
  /\ urls' = MapDelete(urls, loc[p].shortID)
  /\ SaveErr(p, "persist", [loc[p] EXCEPT
                              !.wrote = Append(@, << "delete", loc[p].shortID >>)])
  /\ RUnlock(p)
  /\ UNCHANGED << variant, tbl, nSaves, serial, fatal, loaded >>

\* Load is called: s.mu.Lock(), first half.  A Load that finds another
\* writer holding the writers' mutex waits for it.
LoadCall(p, shortID) ==
  /\ Locked
  /\ StartCall(p, << >>, shortID)
  /\ IF writer = {}
       THEN LockAnnounce(p)
       ELSE /\ pc' = [pc EXCEPT ![p] = "wblocked"]
            /\ UNCHANGED << readers, writer >>
  /\ UNCHANGED << variant, urls, file, tbl, nSaves, fatal, loaded >>

\* s.mu.Lock(), first half, of a Load that waited at the writers' mutex
LoadEnter(p) ==
  /\ Locked /\ ~fatal
  /\ pc[p] = "wblocked"
  /\ LockAnnounce(p)
  /\ Continue(p, loc[p])
  /\ UNCHANGED << variant, urls, file, tbl, nSaves, serial, fatal, loaded >>

\* s.mu.Lock(), second half
LoadLocked(p) ==
  /\ Locked /\ ~fatal
  /\ pc[p] = "wwait"
  /\ LockAcquire(p)
  /\ Continue(p, loc[p])
  /\ UNCHANGED << variant, urls, file, tbl, nSaves, serial, fatal, loaded >>

\* longUrl, exists := s.urls[shortID]; return
LoadRead(p) ==
  /\ Locked /\ ~fatal
  /\ pc[p] = "read"
  /\ IF MapHas(urls, loc[p].shortID)
       THEN LoadRet(p, urls[loc[p].shortID], "nil")
       ELSE LoadRet(p, << >>, "notfound")
  /\ Unlock(p)
  /\ UNCHANGED << variant, urls, file, tbl, nSaves, serial, fatal, loaded >>

\* Two goroutines hold the read lock, one is about to write the map and the
\* other to read or write it: the Go runtime may detect the unsynchronised
\* access and end the process ("fatal error: concurrent map writes").  The
\* goroutines and the map are gone; the file stays.
MapRaceFatal ==
  /\ ~fatal
  /\ \E p, q \in Procs :
       /\ p # q
       /\ pc[p] \in { "insert", "append" }
       /\ pc[q] \in { "check", "insert", "append" }
  /\ fatal' = TRUE
  /\ urls' = EmptyMap
  /\ readers' = {}
  /\ writer' = {}
  /\ pc' = [p \in Procs |-> "dead"]
  /\ loc' = [p \in Procs |-> IdleLoc]
  /\ ret' = NoRet
  /\ UNCHANGED << variant, file, tbl, saved, nSaves, serial, loaded >>

(* ------------------ Save and Load, postgres variant -------------------- *)
\* Save is called
PgSaveCall(p, longURL) ==
  /\ variant = "postgres"
  /\ nSaves < MaxSaves
  /\ nSaves' = nSaves + 1
  /\ StartCall(p, longURL, NoID)
  /\ pc' = [pc EXCEPT ![p] = "exec"]
  /\ UNCHANGED << variant, urls, file, tbl, readers, writer, fatal, loaded >>

\* One iteration: generate a candidate and INSERT it.  The statement
\* inserts the row, or fails with a unique violation, or fails otherwise
\* (connection lost, context cancelled); a failed statement inserts nothing.
PgSaveExec(p) ==
  /\ variant = "postgres" /\ ~fatal
  /\ pc[p] = "exec"
  /\ \E d \in DrawSeqs :
       LET genID == generateShortID(d) IN
       \E code \in { ExecInsert(tbl, genID), "08006" } :
         LET act == SaveOnResult(code)
             l == [loc[p] EXCEPT !.i = @ + 1,
                     !.tried = Append(@, IF code = "ok" THEN "free"
                                         ELSE IF code = uniqueViolationCode
                                           THEN "taken" ELSE "error"),
                     !.wrote = IF code = "ok"
                                 THEN Append(@, << "row", genID, loc[p].longURL >>)
                                 ELSE @]
         IN  /\ tbl' = IF code = "ok" THEN InsertRow(tbl, genID, l.longURL) ELSE tbl
             /\ IF act = "return"
                  THEN /\ SaveOK(p, [l EXCEPT !.shortID = genID])
                       /\ pc' = [pc EXCEPT ![p] = "idle"]
                ELSE IF act = "fail"
                  THEN /\ SaveErr(p, "db", l)
                       /\ pc' = [pc EXCEPT ![p] = "idle"]
                ELSE IF MoreAttempts(l.i)
                  THEN /\ Continue(p, l)
                       /\ UNCHANGED pc
                ELSE /\ SaveErr(p, "exhausted", l)
                     /\ pc' = [pc EXCEPT ![p] = "idle"]
  /\ UNCHANGED << variant, urls, file, readers, writer, nSaves, serial, fatal, loaded >>

\* Load is called
PgLoadCall(p, shortID) ==
  /\ variant = "postgres"
  /\ StartCall(p, << >>, shortID)
  /\ pc' = [pc EXCEPT ![p] = "query"]
  /\ UNCHANGED << variant, urls, file, tbl, readers, writer, nSaves, fatal, loaded >>

\* SELECT long_url FROM urls WHERE short_id = $1; row.Scan
PgLoadQuery(p) ==
  /\ variant = "postgres" /\ ~fatal
  /\ pc[p] = "query"
  /\ IF RowsOf(tbl, loc[p].shortID) # {}
       THEN \E r \in RowsOf(tbl, loc[p].shortID) : LoadRet(p, r.long_url, "nil")
       ELSE LoadRet(p, << >>, "notfound")
  /\ pc' = [pc EXCEPT ![p] = "idle"]
  /\ UNCHANGED << variant, urls, file, tbl, readers, writer, nSaves, serial, fatal, loaded >>

\* the query fails with an error that is not sql.ErrNoRows
PgLoadQueryFails(p) ==
  /\ variant = "postgres" /\ ~fatal
  /\ pc[p] = "query"
  /\ LoadRet(p, << >>, "db")
  /\ pc' = [pc EXCEPT ![p] = "idle"]
  /\ UNCHANGED << variant, urls, file, tbl, readers, writer, nSaves, serial, fatal, loaded >>

(* ------------------------- the specification --------------------------- *)
Next ==
  \/ \E p \in Procs : SaveCall(p, TargetOf(nSaves + 1))
  \/ \E p \in Procs : SaveCheck(p)
  \/ \E p \in Procs : MemSaveInsert(p)
  \/ \E p \in Procs : FileSaveInsert(p)
  \/ \E p \in Procs : FileSaveAppend(p)
  \/ \E p \in Procs : FileSaveRollback(p)
  \/ \E p \in Procs, id \in Lookups : LoadCall(p, id)
  \/ \E p \in Procs : LoadEnter(p)
  \/ \E p \in Procs : LoadLocked(p)
  \/ \E p \in Procs : LoadRead(p)
  \/ MapRaceFatal
  \/ \E p \in Procs : PgSaveCall(p, TargetOf(nSaves + 1))
  \/ \E p \in Procs : PgSaveExec(p)
  \/ \E p \in Procs, id \in Lookups : PgLoadCall(p, id)
  \/ \E p \in Procs : PgLoadQuery(p)
  \/ \E p \in Procs : PgLoadQueryFails(p)

Spec == Init /\ [][Next]_vars

(* ----------------------------- scheduling ------------------------------ *)
\* a step of the call of p, memory and file variants
CallStep(p) ==
  \/ SaveCheck(p)
  \/ MemSaveInsert(p)
  \/ FileSaveInsert(p)
  \/ FileSaveAppend(p)
  \/ FileSaveRollback(p)
  \/ LoadEnter(p)
  \/ LoadLocked(p)
  \/ LoadRead(p)

\* The Go scheduler runs every goroutine that can run, and a goroutine that
\* waits for sync.Mutex gets it in the end (the mutex hands itself over to
\* a waiter that has waited for long).
SpecFair ==
  /\ Spec
  /\ \A p \in Procs : WF_vars(CallStep(p)) /\ SF_vars(LoadEnter(p))

(* ------------------ the file store across restarts --------------------- *)
\* The process is started again (after it has ended with no call in
\* progress, or after the runtime has ended it): main calls NewStorage on
\* the same file.  NewStorage returns (s, nil) whether loadFromFile failed
\* or not.  (A failed load of an empty file gives the store a successful
\* load gives, and is not told apart.)
Restart ==
  /\ variant = "file"
  /\ fatal \/ \A p \in Procs : pc[p] = "idle"
  /\ \E loadOK \in (IF file # << >> THEN BOOLEAN ELSE { TRUE }) :
       /\ urls' = NewStorage(file, loadOK)
       /\ loaded' = loadOK
  /\ ret' = [NoRet EXCEPT !.op = "NewStorage"]
  /\ fatal' = FALSE
  /\ readers' = {}
  /\ writer' = {}
  /\ pc' = [p \in Procs |-> "idle"]
  /\ loc' = [p \in Procs |-> IdleLoc]
  /\ UNCHANGED << variant, file, tbl, saved, nSaves, serial >>

\* the steps of the file variant, and the restart
NextRestart ==
  \/ \E p \in Procs : SaveCall(p, TargetOf(nSaves + 1))
  \/ \E p \in Procs : SaveCheck(p)
  \/ \E p \in Procs : FileSaveInsert(p)
  \/ \E p \in Procs : FileSaveAppend(p)
  \/ \E p \in Procs : FileSaveRollback(p)
  \/ \E p \in Procs, id \in Lookups : LoadCall(p, id)
  \/ \E p \in Procs : LoadEnter(p)
  \/ \E p \in Procs : LoadLocked(p)
  \/ \E p \in Procs : LoadRead(p)
  \/ MapRaceFatal
  \/ Restart

InitFileStore == Init /\ variant = "file"

\* a file store, its calls, and its restarts on the same file
SpecRestart == InitFileStore /\ [][NextRestart]_vars

(* ---------------------- the loader on any file ------------------------- *)
\* The lines a file may hold: records, records for an id that has one
\* already, an empty line, a line without tab, a line with two tabs, a line
\* that ends with a carriage return, a line that is only a tab.
LoadLines ==
  { << "a", TAB, "x" >>, << "a", TAB, "y" >>, << "b", TAB, "x" >>,
    << >>, << "a", "b" >>, << "a", TAB, "x", TAB, "y" >>,
    << "a", TAB, "x", CR >>, << TAB >> }

RECURSIVE JoinLines(_)
JoinLines(lines) ==
  IF lines = << >> THEN << >>
  ELSE Head(lines) \o << NL >> \o JoinLines(Tail(lines))

\* the files of at most MaxLines lines, the last line with or without its
\* newline
LoadFiles ==
  LET texts == { JoinLines(ls) :
                   ls \in UNION { [1..n -> LoadLines] : n \in 0..MaxLines } }
  IN  texts \cup { SubSeq(t, 1, Len(t) - 1) : t \in texts \ { << >> } }

\* a store constructed on any of these files
InitLoad ==
  /\ variant = "file"
  /\ file \in LoadFiles
  /\ loaded \in BOOLEAN
  /\ urls = NewStorage(file, loaded)
  /\ tbl = EmptyBag
  /\ readers = {}
  /\ writer = {}
  /\ pc = [p \in Procs |-> "idle"]
  /\ loc = [p \in Procs |-> IdleLoc]
  /\ ret = NoRet
  /\ saved = EmptyBag
  /\ nSaves = 0
  /\ serial = TRUE
  /\ fatal = FALSE

SpecLoad == InitLoad /\ [][Restart]_vars

(* ------------------------------ claims --------------------------------- *)
Range(f) == { f[x] : x \in DOMAIN f }

SaveInProgress == \E p \in Procs : pc[p] \in { "rblocked", "check", "insert", "append", "exec" }

\* every id returned by a successful Save was returned by one Save only
DistinctSavedIds ==
  \A r1, r2 \in BagToSet(saved) :
    r1.id = r2.id => (r1 = r2 /\ CopiesIn(r1, saved) = 1)

\* the step just taken returned from a Save / a Load
SaveReturned == ret.op = "Save"
LoadReturned == ret.op = "Load"

\* all the candidates of the returned call but the last were taken
TakenButLast(t) == \A k \in 1..(Len(t) - 1) : t[k] = "taken"

\* C1: in the memory and file variants no two Save calls return success
\* with the same short id, whatever the interleaving.
C1_NoTwoSavesSameId == Locked => DistinctSavedIds

\* C2: postgres variant: the table never holds two rows with one short_id,
\* no two Save calls return the same id, the row of a returned id holds the
\* target of the call that returned it, and a Save whose INSERT met a unique
\* violation went on to another candidate.
C2_PgUniqueIds ==
  variant = "postgres" =>
    /\ \A r \in BagToSet(tbl) :
         CopiesIn(r, tbl) = 1 /\ RowsOf(tbl, r.short_id) = { r }
    /\ DistinctSavedIds
    /\ \A r \in BagToSet(saved) : Row(r.id, r.target) \in BagToSet(tbl)
    /\ (SaveReturned /\ ret.err = "nil") =>
         (TakenButLast(ret.tried) /\ ret.tried[Len(ret.tried)] = "free")

\* two overlapping Saves on an empty table: the second met the row of the
\* first, retried and returned another id
C2_Witness ==
  /\ variant = "postgres"
  /\ SaveReturned /\ ret.err = "nil" /\ ~ret.alone
  /\ ret.tried = << "taken", "free" >>
  /\ BagCardinality(saved) = 2
  /\ BagCardinality(tbl) = 2

\* C3: memory and file variants: once all the Save calls that were started
\* have returned success, the returned ids are pairwise distinct and the map
\* holds, for each returned id, the target of the call that returned it (so
\* that Load returns it).
C3_ConcurrentSavesResolvable ==
  (Locked /\ ~fatal /\ ~SaveInProgress /\ BagCardinality(saved) = nSaves) =>
    /\ DistinctSavedIds
    /\ \A r \in BagToSet(saved) : MapHas(urls, r.id) /\ urls[r.id] = r.target
    /\ (LoadReturned /\ ret.expect # {}) =>
         (ret.err = "nil" /\ ret.expect = { ret.val })

\* C4: memory and file variants, calls made one at a time: a Load of an id
\* that an earlier Save returned for target T returns T and no error,
\* whatever Saves were made in between.
C4_SequentialRoundTrip ==
  (Locked /\ serial /\ LoadReturned /\ ret.expect # {}) =>
    (ret.err = "nil" /\ ret.expect = { ret.val })

\* a Load of the id of the first of two sequential Saves returns its target
C4_Witness ==
  /\ Locked /\ serial /\ LoadReturned
  /\ BagCardinality(saved) = 2
  /\ ret.val = TargetOf(1)
  /\ ret.expect = { TargetOf(1) }

\* C5: file variant, a store whose construction loaded the log: a Load that
\* starts after a Save has returned id with success returns a target that a
\* Save returned that id for, and no error.
C5_ReturnedIdNeverVanishes ==
  (variant = "file" /\ loaded /\ LoadReturned /\ ret.expect # {}) =>
    (ret.err = "nil" /\ ret.val \in ret.expect)

\* C6: file variant, a store whose construction loaded the log: whenever no
\* Save is in progress the map is the last-write-wins replay of the log.
C6_IndexAgreesWithLog ==
  (variant = "file" /\ loaded /\ ~fatal /\ ~SaveInProgress) =>
    urls = loadFromFile(file)

\* C7: file variant, a store whose construction loaded the log: a Save that
\* ran alone and whose append failed returns the persistence error and no
\* id, leaves the map as it was before the call, leaves no record for the
\* candidate in the log, and a Load of the candidate then finds nothing.
C7_RollbackAlone ==
  [][ \A p \in Procs :
        ( /\ variant = "file" /\ loaded
          /\ pc[p] = "append" /\ loc[p].alone
          /\ ret'.by = p /\ ret'.err # "nil" ) =>
        ( /\ ret'.err = "persist" /\ ret'.val = NoID
          /\ urls' = loc[p].urls0
          /\ ~MapHas(loadFromFile(file'), loc[p].shortID)
          /\ ~MapHas(urls', loc[p].shortID) ) ]_vars

\* C8: a Save returns the exhaustion error exactly when it has tried 5
\* candidates and found all of them taken; the call has written nothing,
\* the returning step changes neither the map nor the file nor the table,
\* and when the call ran alone all three are what they were when it started.
C8_Exhaustion ==
  [][ (ret'.op = "Save") =>
        /\ (ret'.err = "exhausted") <=>
             (Len(ret'.tried) = maxAttempts /\ Range(ret'.tried) = { "taken" })
        /\ Len(ret'.tried) <= maxAttempts
        /\ (ret'.err = "exhausted") =>
             /\ ret'.val = NoID
             /\ ret'.wrote = << >>
             /\ urls' = urls /\ file' = file /\ tbl' = tbl
             /\ ret'.alone =>
                  /\ urls' = loc[ret'.by].urls0
                  /\ file' = loc[ret'.by].file0
                  /\ tbl' = loc[ret'.by].tbl0 ]_vars

\* a Save that ran alone has returned the exhaustion error
C8_Witness ==
  /\ SaveReturned /\ ret.err = "exhausted" /\ ret.alone
  /\ Len(ret.tried) = maxAttempts

\* C9: memory and postgres variants: a Save that returns an id has tried at
\* most 5 candidates, found every one before the last taken and the last
\* one free, returns the last one, and has written exactly once: the
\* returned id with its own target, which the store holds on return.
C9_FirstFreeCandidate ==
  (variant \in { "memory", "postgres" } /\ SaveReturned /\ ret.err = "nil") =>
    /\ Len(ret.tried) \in 1..maxAttempts
    /\ TakenButLast(ret.tried)
    /\ ret.tried[Len(ret.tried)] = "free"
    /\ ret.wrote \in { << << "put", ret.val, ret.arg >> >>,
                       << << "row", ret.val, ret.arg >> >> }
    /\ variant = "memory" => (MapHas(urls, ret.val) /\ urls[ret.val] = ret.arg)
    /\ variant = "postgres" => Row(ret.val, ret.arg) \in BagToSet(tbl)

\* four collisions followed by a free fifth candidate
C9_Witness ==
  /\ variant \in { "memory", "postgres" }
  /\ SaveReturned /\ ret.err = "nil"
  /\ ret.tried = << "taken", "taken", "taken", "taken", "free" >>

\* C10: postgres variant: an INSERT that fails with another error than a
\* unique violation ends the call: no call in progress has such an INSERT
\* behind it, and the Save returns the database error, which is not the
\* exhaustion error, no id, and has inserted nothing.
C10_PgOtherErrorNotRetried ==
  variant = "postgres" =>
    /\ \A p \in Procs : "error" \notin Range(loc[p].tried)
    /\ (SaveReturned /\ "error" \in Range(ret.tried)) =>
         /\ ret.err = "db"
         /\ ret.val = NoID
         /\ ret.tried[Len(ret.tried)] = "error"
         /\ TakenButLast(ret.tried)
         /\ ret.wrote = << >>
    /\ (SaveReturned /\ ret.err = "db") => "error" \in Range(ret.tried)

\* the second INSERT of a call failed: three attempts were left
C10_Witness ==
  /\ variant = "postgres"
  /\ SaveReturned /\ ret.err = "db"
  /\ ret.tried = << "taken", "error" >>

IsPrefix(s, t) == Len(s) <= Len(t) /\ SubSeq(t, 1, Len(s)) = s

\* The store was constructed with nothing in it.  (The log is only appended
\* to, so it begins with what it held at construction.)
StartedEmpty ==
  \/ variant = "memory"
  \/ variant = "file" /\ \A f \in InitFiles \ { << >> } : ~IsPrefix(f, file)

\* the step is a step of a Load call of p
LoadStep(p) ==
  \/ pc'[p] \in { "wblocked", "wwait", "read" } /\ pc'[p] # pc[p]
  \/ pc[p] = "read" /\ pc'[p] = "idle"

\* C11: memory and file variants, a store started empty: a Load of an id
\* that no Save has returned returns the not-found error and no target, and
\* no step of a Load, whether it finds the id or not, changes the map or the
\* file.
C11_NotFound ==
  [][ Locked =>
        /\ (ret'.op = "Load" /\ SavedFor(ret'.arg) = {} /\ StartedEmpty) =>
             (ret'.err = "notfound" /\ ret'.val = << >>)
        /\ \A p \in Procs : LoadStep(p) => (urls' = urls /\ file' = file) ]_vars

\* a Load finds nothing for an id that was never returned, in a store that
\* holds another id
C11_Witness ==
  /\ Locked /\ StartedEmpty
  /\ LoadReturned /\ ret.err = "notfound"
  /\ SavedFor(ret.arg) = {}
  /\ urls # EmptyMap /\ saved # EmptyBag

\* the step just taken constructed the store
Constructed == ret.op = "NewStorage"

\* C12: file variant: when a new store is constructed on the log and the
\* load succeeds, its index (which is what Load reads) holds, for every
\* (id, target) that a Save has returned with success, that id with that
\* target; and constructing a store again with no call in between gives
\* the same index.
C12_ReloadIdempotence ==
  [][ (Constructed' /\ loaded') =>
        /\ \A r \in BagToSet(saved) :
             MapHas(urls', r.id) /\ urls'[r.id] = r.target
        /\ (Constructed /\ loaded) => urls' = urls ]_vars

\* the Save of p is between its first lookup and its return
InSaveSection(p) == pc[p] \in { "check", "insert", "append" }

\* the Load of p holds the lock and is about to read the map
InLoadSection(p) == pc[p] = "read"

\* C13: memory and file variants: never are two Saves in their
\* check-and-insert section at the same time, and never is a Save in its
\* section while a Load is reading the map.
C13_InsertExclusive ==
  Locked =>
    /\ \A p, q \in Procs : (InSaveSection(p) /\ InSaveSection(q)) => p = q
    /\ \A p, q \in Procs : ~(InSaveSection(p) /\ InLoadSection(q))

\* no Save is in its section while a Load is reading
SaveExcludesLoad ==
  Locked => \A p, q \in Procs : ~(InSaveSection(p) /\ InLoadSection(q))

\* two Loads are never reading at the same time
LoadsExcludeEachOther ==
  Locked => \A p, q \in Procs : (InLoadSection(p) /\ InLoadSection(q)) => p = q

\* the Load of p waits at the writers' mutex, which another Load holds
LoadWaitsForLoad(p) ==
  pc[p] = "wblocked" /\ \E q \in Procs \ {p} : writer = {q}

\* C14: memory and file variants: lookups proceed concurrently with each
\* other: a Load never has to wait for another Load to finish.
C14_LoadNeverWaitsForLoad ==
  Locked => \A p \in Procs : ~LoadWaitsForLoad(p)

\* the text rec has been written to data in one piece
Appended(data, rec) ==
  \E k \in 1..(Len(data) - Len(rec) + 1) :
    SubSeq(data, k, k + Len(rec) - 1) = rec

\* C15: file variant: a Load returns a target for an id only if the record
\* of that id with that target has been appended to the log, and no Load
\* reads the map while a Save has inserted an entry whose append is still
\* to come.
C15_NotVisibleBeforeDurable ==
  variant = "file" =>
    /\ (LoadReturned /\ ret.err = "nil") =>
         Appended(file, Record(ret.arg, ret.val))
    /\ \A p, q \in Procs : ~(InLoadSection(p) /\ pc[q] = "append")

\* a Load that overlapped Saves returns the target of the second Save
C15_Witness ==
  /\ variant = "file"
  /\ LoadReturned /\ ret.err = "nil" /\ ~ret.alone
  /\ ret.val = TargetOf(2)

\* The lines of a text, said without scanning it: a line starts at the
\* first character and after every newline, and runs up to the next newline
\* or the end of the text; a carriage return at its end is not part of it.
LineStarts(data) ==
  { k \in 1..Len(data) : k = 1 \/ data[k - 1] = NL }

\* where the line that starts at k ends (k - 1 when it is empty)
LineEnd(data, k) ==
  CHOOSE j \in (k - 1)..Len(data) :
    /\ j = Len(data) \/ data[j + 1] = NL
    /\ \A x \in k..j : data[x] # NL

LineAt(data, k) ==
  LET raw == SubSeq(data, k, LineEnd(data, k))
  IN  IF raw # << >> /\ raw[Len(raw)] = CR
        THEN SubSeq(raw, 1, Len(raw) - 1)
        ELSE raw

\* the number of tabs of a line
Tabs(line) == Cardinality({ k \in 1..Len(line) : line[k] = TAB })

\* The records of a text: its lines that hold a tab, each with where it
\* starts, the id (what precedes its first tab) and the target (what follows
\* that tab).
RecordsOf(data) ==
  { [ at |-> k,
      id |-> CHOOSE id \in { SubSeq(LineAt(data, k), 1, n) :
                                n \in 0..Len(LineAt(data, k)) } :
               /\ TAB \notin Range(id)
               /\ IsPrefix(id \o << TAB >>, LineAt(data, k)),
      target |-> CHOOSE t \in { SubSeq(LineAt(data, k), n, Len(LineAt(data, k))) :
                                   n \in 1..(Len(LineAt(data, k)) + 1) } :
                   \E id \in { SubSeq(LineAt(data, k), 1, n) :
                                  n \in 0..Len(LineAt(data, k)) } :
                     /\ TAB \notin Range(id)
                     /\ LineAt(data, k) = id \o << TAB >> \o t ] :
    k \in { x \in LineStarts(data) : Tabs(LineAt(data, x)) >= 1 } }

\* the map holds exactly the ids of the records of the text, each with the
\* target of the last record for it
LastWriteWins(m, data) ==
  /\ DOMAIN m = { r.id : r \in RecordsOf(data) }
  /\ \A r \in RecordsOf(data) :
       (\A r2 \in RecordsOf(data) : r2.id = r.id => r2.at <= r.at) =>
         m[r.id] = r.target

WithoutLine(data, k) ==
  SubSeq(data, 1, k - 1) \o SubSeq(data, LineEnd(data, k) + 2, Len(data))

\* the line of data that starts at k contributes nothing to the index m
\* loaded from data: the text without it loads to the same index
Skipped(m, data, k) == m = loadFromFile(WithoutLine(data, k))

C18_ConstructorReportsFailure ==
  (variant = "file" /\ Constructed) =>
    /\ ~loaded => ret.err # "nil"
    /\ urls = EmptyMap => RecordsOf(file) = {}

\* the step is the return of a Save with success
SaveSucceeds == ret'.op = "Save" /\ ret'.err = "nil"

\* C19: file variant: every step of a Save, a Load or a construction leaves
\* the log with what it held as a prefix; a Save that returns with success
\* has extended it by exactly the record id, tab, target, newline, in the
\* step in which it returns; no other step (of a Save that returns an error,
\* of a Load, of a construction) extends it.
C19_AppendOnly ==
  [][ variant = "file" =>
        /\ IsPrefix(file, file')
        /\ SaveSucceeds =>
             file' = file \o ret'.val \o << TAB >> \o ret'.arg \o << NL >>
        /\ ~SaveSucceeds => file' = file ]_vars

\* the log is never shortened or rewritten
LogOnlyGrows == [][ IsPrefix(file, file') ]_vars

\* C20: memory and file variants: every call that has started can go on to
\* its return: whenever calls are in progress one of them can take a step
\* (no state in which the callers wait forever), a Save makes at most 5
\* attempts, and when no call is in progress the lock is free (every return
\* path has released it).
C20_CallsTerminate ==
  Locked =>
    /\ (\E p \in Procs : pc[p] # "idle") => (\E p \in Procs : ENABLED CallStep(p))
    /\ \A p \in Procs : loc[p].i <= maxAttempts
    /\ (\A p \in Procs : pc[p] = "idle") => (readers = {} /\ writer = {})

\* memory and file variants: every call returns unless the runtime ends the
\* process
ReturnsUnlessFatal ==
  \A p \in Procs : (Locked /\ pc[p] # "idle") ~> (pc[p] = "idle" \/ fatal)

====
